---- MODULE Spec2Model ----
(***************************************************************************)
(* Model of unblur_media.py: the command-line dispatcher main, the image   *)
(* path sharpen_image and the video path sharpen_video, together with the  *)
(* library operations they rest on (os.path.splitext, str.lower, int,      *)
(* np.clip, cv2.filter2D with its default border mode).                    *)
(*                                                                         *)
(* Strings that the program inspects (paths, the level argument) are       *)
(* sequences of one-character strings.  A frame is a sequence of rows, a   *)
(* row a sequence of pixels, a pixel a sequence of channel values.         *)
(***************************************************************************)
EXTENDS Integers, Sequences, FiniteSets, TLC

VARIABLES argv, pc, input_path, output_path, sharpness_level, img, level,
          kernel, sharpened, imageFile, capState, outState, fourcc,
          writerOpens, ret, frame, framesRead, framesWritten, frame_count,
          calls, result, exists

vars == <<argv, pc, input_path, output_path, sharpness_level, img, level,
          kernel, sharpened, imageFile, capState, outState, fourcc,
          writerOpens, ret, frame, framesRead, framesWritten, frame_count,
          calls, result, exists>>

(***************************************************************************)
(* Bounds of the model.                                                    *)
(***************************************************************************)
MaxH == 2
MaxW == 2
MaxFrames == 3
LevelSlack == 2

(***************************************************************************)
(* Program and library constants.                                          *)
(***************************************************************************)
MinLevel == 1
MaxLevel == 10
DefaultLevel == 3
KernelBase == 5
Channels == 3
MaxChannelValue == 255

None == <<>>

Min(a, b) == IF a < b THEN a ELSE b
Max(a, b) == IF a > b THEN a ELSE b

(***************************************************************************)
(* str.lower on the characters that occur in the modelled paths.           *)
(***************************************************************************)
UpperChars == <<"A", "B", "C", "D", "E", "F", "G", "H", "I", "J", "K", "L", "M",
                "N", "O", "P", "Q", "R", "S", "T", "U", "V", "W", "X", "Y", "Z">>
LowerChars == <<"a", "b", "c", "d", "e", "f", "g", "h", "i", "j", "k", "l", "m",
                "n", "o", "p", "q", "r", "s", "t", "u", "v", "w", "x", "y", "z">>

LowerChar(c) ==
    IF \E k \in 1..Len(UpperChars) : UpperChars[k] = c
    THEN LowerChars[CHOOSE k \in 1..Len(UpperChars) : UpperChars[k] = c]
    ELSE c

Lower(s) == [k \in 1..Len(s) |-> LowerChar(s[k])]

(***************************************************************************)
(* os.path.splitext(p)[1]: the extension starts at the last dot after the  *)
(* last separator, unless only dots precede it in the file name.           *)
(***************************************************************************)
RFind(s, c) ==
    IF \E k \in 1..Len(s) : s[k] = c
    THEN CHOOSE k \in 1..Len(s) : s[k] = c /\ \A m \in (k+1)..Len(s) : s[m] # c
    ELSE 0

SplitExt(p) ==
    LET sepIndex == RFind(p, "/")
        dotIndex == RFind(p, ".")
    IN  IF dotIndex > sepIndex
           /\ \E k \in (sepIndex+1)..(dotIndex-1) : p[k] # "."
        THEN SubSeq(p, dotIndex, Len(p))
        ELSE <<>>

ImageExts == { <<".", "j", "p", "g">>, <<".", "j", "p", "e", "g">>,
               <<".", "p", "n", "g">>, <<".", "b", "m", "p">>,
               <<".", "t", "i", "f", "f">>, <<".", "t", "i", "f">>,
               <<".", "g", "i", "f">> }

VideoExts == { <<".", "m", "p", "4">>, <<".", "a", "v", "i">>,
               <<".", "m", "o", "v">>, <<".", "m", "k", "v">>,
               <<".", "w", "m", "v">>, <<".", "f", "l", "v">>,
               <<".", "w", "e", "b", "m">>, <<".", "m", "p", "e", "g">> }

is_image_file_CaseSensitive(filename) == SplitExt(filename) \in ImageExts

is_image_file(filename) == Lower(SplitExt(filename)) \in ImageExts

is_video_file(filename) == Lower(SplitExt(filename)) \in VideoExts

(***************************************************************************)
(* int(s): an optional sign followed by decimal digits; anything else      *)
(* raises ValueError.                                                      *)
(***************************************************************************)
Digits == <<"0", "1", "2", "3", "4", "5", "6", "7", "8", "9">>

IsDigit(c) == \E k \in 1..Len(Digits) : Digits[k] = c

DigitVal(c) == (CHOOSE k \in 1..Len(Digits) : Digits[k] = c) - 1

RECURSIVE DigitsVal(_)
DigitsVal(s) ==
    IF s = <<>> THEN 0
    ELSE 10 * DigitsVal(SubSeq(s, 1, Len(s) - 1)) + DigitVal(s[Len(s)])

IsIntLiteral(s) ==
    LET body == IF s # <<>> /\ s[1] \in {"+", "-"} THEN Tail(s) ELSE s
    IN  body # <<>> /\ \A k \in 1..Len(body) : IsDigit(body[k])

ParseInt(s) ==
    IF s[1] = "-" THEN 0 - DigitsVal(Tail(s))
    ELSE IF s[1] = "+" THEN DigitsVal(Tail(s))
    ELSE DigitsVal(s)

LevelFromArg_Clamped(s) ==
    IF ~IsIntLiteral(s) THEN DefaultLevel
    ELSE IF ParseInt(s) < MinLevel THEN MinLevel
    ELSE IF ParseInt(s) > MaxLevel THEN MaxLevel
    ELSE ParseInt(s)

(***************************************************************************)
(* main, lines 99-107: the level used when the optional argument is given. *)
(***************************************************************************)
LevelFromArg(s) ==
    IF ~IsIntLiteral(s) THEN DefaultLevel
    ELSE IF ParseInt(s) < MinLevel \/ ParseInt(s) > MaxLevel THEN DefaultLevel
    ELSE ParseInt(s)

(***************************************************************************)
(* np.clip and the sharpening kernel.                                      *)
(***************************************************************************)
Clip_NoUpper(x, lo, hi) == Max(x, lo)

Clip(x, lo, hi) == Min(Max(x, lo), hi)

BuildKernel_Centre4(l) ==
    << << 0, -1, 0 >>,
       << -1, 4 + l, -1 >>,
       << 0, -1, 0 >> >>

BuildKernel(l) ==
    << << 0, -1, 0 >>,
       << -1, KernelBase + l, -1 >>,
       << 0, -1, 0 >> >>

(***************************************************************************)
(* cv2.filter2D(src, -1, kernel) with its defaults: correlation with the   *)
(* anchor at the kernel centre, border mode BORDER_DEFAULT (reflection     *)
(* about the edge pixel, which is not repeated), result saturated to the   *)
(* 8-bit channel range.  Indices passed to BorderInterpolate are 0-based.  *)
(***************************************************************************)
BorderInterpolate_Replicate(p, len) ==
    IF p < 0 THEN 0 ELSE IF p >= len THEN len - 1 ELSE p

RECURSIVE BorderInterpolate(_, _)
BorderInterpolate(p, len) ==
    IF 0 <= p /\ p < len THEN p
    ELSE IF len = 1 THEN 0
    ELSE BorderInterpolate(IF p < 0 THEN (0 - p) - 1 + 1
                                    ELSE len - 1 - (p - len) - 1, len)

SaturateCast_Wrap(v) == v % (MaxChannelValue + 1)

SaturateCast(v) == IF v < 0 THEN 0 ELSE IF v > MaxChannelValue THEN MaxChannelValue ELSE v

Height(f) == Len(f)
Width(f) == Len(f[1])
Depth(f) == Len(f[1][1])

Filter2D_Identity(src, k) == src

Filter2D_SingleChannel(src, k) ==
    [y \in 1..Height(src) |-> [x \in 1..Width(src) |-> <<src[y][x][1]>>]]

Filter2D(src, k) ==
    LET h == Height(src)
        w == Width(src)
        kh == Len(k)
        kw == Len(k[1])
        ay == kh \div 2
        ax == kw \div 2
        Tap(y, x, ch, n) ==
            LET ky == (n - 1) \div kw
                kx == (n - 1) % kw
            IN  k[ky + 1][kx + 1]
                  * src[BorderInterpolate(y - 1 + ky - ay, h) + 1]
                       [BorderInterpolate(x - 1 + kx - ax, w) + 1][ch]
        RECURSIVE Acc(_, _, _, _)
        Acc(y, x, ch, n) ==
            IF n = 0 THEN 0 ELSE Tap(y, x, ch, n) + Acc(y, x, ch, n - 1)
    IN  [y \in 1..h |-> [x \in 1..w |-> [ch \in 1..Len(src[y][x]) |->
            SaturateCast(Acc(y, x, ch, kh * kw))]]]

(***************************************************************************)
(* Decoded frames the environment can supply.                              *)
(***************************************************************************)
GrayPixel(v) == [ch \in 1..Channels |-> v]

GrayValues == {0, 10, 100, 255}

Pixels == {GrayPixel(v) : v \in GrayValues} \cup { <<0, 100, 255>> }

Backgrounds == { GrayPixel(100), <<30, 20, 10>> }

UniformFrame(h, w, p) == [y \in 1..h |-> [x \in 1..w |-> p]]

SpotFrame(h, w, bg, fg, i, j) ==
    [y \in 1..h |-> [x \in 1..w |-> IF y = i /\ x = j THEN fg ELSE bg]]

GradientFrame(h, w, step) ==
    [y \in 1..h |-> [x \in 1..w |-> GrayPixel(step * ((y - 1) * w + x))]]

ExampleFrame ==
    << << GrayPixel(10), GrayPixel(20) >>,
       << GrayPixel(30), GrayPixel(40) >> >>

UniformFrames ==
    { UniformFrame(h, w, p) : h \in 1..MaxH, w \in 1..MaxW, p \in Pixels }

SpotFrames ==
    { SpotFrame(h, w, bg, fg, i, j) :
        h \in 1..MaxH, w \in 1..MaxW, bg \in Backgrounds, fg \in Pixels,
        i \in 1..MaxH, j \in 1..MaxW }

GradientFrames ==
    { GradientFrame(h, w, step) :
        h \in 1..MaxH, w \in 1..MaxW, step \in {10, 25} }

Frames == UniformFrames \cup SpotFrames \cup GradientFrames \cup {ExampleFrame}

VideoFrames ==
    { ExampleFrame,
      SpotFrame(Height(ExampleFrame), Width(ExampleFrame), GrayPixel(100),
                <<0, 100, 255>>, 1, 1) }

(***************************************************************************)
(* Command lines.  argv[1] is the program name (sys.argv[0]), argv[2] the  *)
(* input path, argv[3] the output path, argv[4] the optional level.        *)
(***************************************************************************)
ProgName == <<"u">>
OutPath == <<"o">>

Paths ==
    { <<"a", ".", "j", "p", "g">>,
      <<"a", ".", "J", "P", "G">>,
      <<"b", ".", "P", "n", "g">>,
      <<"d", ".", "m", "p", "4", "/", "x", ".", "g", "i", "f">>,
      <<"v", ".", "m", "p", "4">>,
      <<"v", ".", "M", "K", "V">>,
      <<"c", ".", "g", "i", "f", ".", "a", "v", "i">>,
      <<"n", ".", "t", "x", "t">>,
      <<"j", "p", "g">>,
      <<".", "p", "n", "g">>,
      <<"e", ".", "j", "p", "g", ".">>,
      <<"m", ".", "m", "p", "4", "/", "r">> }

LevelArgs ==
    { <<"0">>, <<"1">>, <<"3">>, <<"1", "0">>, <<"1", "1">>, <<"-", "2">>,
      <<"+", "5">>, <<"2", "5">>, <<"x">>, <<"4", "x">>, <<>> }

Argvs ==
    { <<ProgName>> }
      \cup { <<ProgName, p>> : p \in Paths }
      \cup { <<ProgName, p, OutPath>> : p \in Paths }
      \cup { <<ProgName, p, OutPath, a>> : p \in Paths, a \in LevelArgs }

DirectLevels == (MinLevel - LevelSlack)..(MaxLevel + LevelSlack)

(***************************************************************************)
(* Initial states: the interpreter is about to run main() on a command     *)
(* line, or sharpen_image / sharpen_video is called directly.              *)
(***************************************************************************)
InitLocals ==
    /\ img = None
    /\ level = 0
    /\ kernel = None
    /\ sharpened = None
    /\ imageFile = None
    /\ capState = "none"
    /\ outState = "none"
    /\ fourcc = "none"
    /\ writerOpens = 0
    /\ ret = FALSE
    /\ frame = None
    /\ framesRead = <<>>
    /\ framesWritten = <<>>
    /\ frame_count = 0
    /\ result = "None"
    /\ exists = "unknown"

InitMain ==
    /\ argv \in Argvs
    /\ pc = "main"
    /\ input_path = <<>>
    /\ output_path = <<>>
    /\ sharpness_level = 0
    /\ calls = <<>>
    /\ InitLocals

InitImage ==
    /\ argv = <<>>
    /\ pc = "sharpen_image"
    /\ input_path = <<"a", ".", "j", "p", "g">>
    /\ output_path = OutPath
    /\ sharpness_level \in DirectLevels
    /\ calls = <<"sharpen_image">>
    /\ InitLocals

InitVideo ==
    /\ argv = <<>>
    /\ pc = "sharpen_video"
    /\ input_path = <<"v", ".", "m", "p", "4">>
    /\ output_path = OutPath
    /\ sharpness_level \in DirectLevels
    /\ calls = <<"sharpen_video">>
    /\ InitLocals

Init == InitMain \/ InitImage \/ InitVideo

(***************************************************************************)
(* main                                                                    *)
(***************************************************************************)
MainArgs ==
    /\ pc = "main"
    /\ IF Len(argv) < 3
       THEN /\ pc' = "done"
            /\ UNCHANGED <<input_path, output_path, sharpness_level>>
       ELSE /\ input_path' = argv[2]
            /\ output_path' = argv[3]
            /\ sharpness_level' = IF Len(argv) >= 4 THEN LevelFromArg(argv[4])
                                                    ELSE DefaultLevel
            /\ pc' = "main_isfile"
    /\ UNCHANGED <<argv, img, level, kernel, sharpened, imageFile, capState,
                   outState, fourcc, writerOpens, ret, frame, framesRead,
                   framesWritten, frame_count, calls, result, exists>>

MainIsFile ==
    /\ pc = "main_isfile"
    /\ \E isfile \in BOOLEAN :
          /\ exists' = IF isfile THEN "yes" ELSE "no"
          /\ pc' = IF isfile THEN "main_dispatch" ELSE "done"
    /\ UNCHANGED <<argv, input_path, output_path, sharpness_level, img, level,
                   kernel, sharpened, imageFile, capState, outState, fourcc,
                   writerOpens, ret, frame, framesRead, framesWritten,
                   frame_count, calls, result>>

MainDispatch ==
    /\ pc = "main_dispatch"
    /\ IF is_image_file(input_path)
       THEN /\ calls' = Append(calls, "sharpen_image")
            /\ pc' = "sharpen_image"
       ELSE IF is_video_file(input_path)
       THEN /\ calls' = Append(calls, "sharpen_video")
            /\ pc' = "sharpen_video"
       ELSE /\ calls' = calls
            /\ pc' = "done"
    /\ UNCHANGED <<argv, input_path, output_path, sharpness_level, img, level,
                   kernel, sharpened, imageFile, capState, outState, fourcc,
                   writerOpens, ret, frame, framesRead, framesWritten,
                   frame_count, result, exists>>

(***************************************************************************)
(* sharpen_image                                                           *)
(***************************************************************************)
ImageRead ==
    /\ pc = "sharpen_image"
    /\ \E f \in Frames \cup {None} :
          /\ img' = f
          /\ IF f = None
             THEN result' = "False" /\ pc' = "done"
             ELSE result' = result /\ pc' = "image_filter"
    /\ UNCHANGED <<argv, input_path, output_path, sharpness_level, level,
                   kernel, sharpened, imageFile, capState, outState, fourcc,
                   writerOpens, ret, frame, framesRead, framesWritten,
                   frame_count, calls, exists>>

ImageFilter ==
    /\ pc = "image_filter"
    /\ level' = Clip(sharpness_level, MinLevel, MaxLevel)
    /\ kernel' = BuildKernel(level')
    /\ sharpened' = Filter2D(img, kernel')
    /\ pc' = "image_write"
    /\ UNCHANGED <<argv, input_path, output_path, sharpness_level, img,
                   imageFile, capState, outState, fourcc, writerOpens, ret,
                   frame, framesRead, framesWritten, frame_count, calls,
                   result, exists>>

ImageWrite ==
    /\ pc = "image_write"
    /\ \E written \in BOOLEAN :
          imageFile' = IF written THEN sharpened ELSE None
    /\ result' = "True"
    /\ pc' = "done"
    /\ UNCHANGED <<argv, input_path, output_path, sharpness_level, img, level,
                   kernel, sharpened, capState, outState, fourcc, writerOpens,
                   ret, frame, framesRead, framesWritten, frame_count, calls, exists>>

(***************************************************************************)
(* sharpen_video                                                           *)
(***************************************************************************)
VideoOpen ==
    /\ pc = "sharpen_video"
    /\ \E opened \in BOOLEAN :
          IF opened
          THEN /\ capState' = "open"
               /\ fourcc' = "input"
               /\ result' = result
               /\ pc' = "video_writer"
          ELSE /\ capState' = "failed"
               /\ fourcc' = fourcc
               /\ result' = "False"
               /\ pc' = "done"
    /\ UNCHANGED <<argv, input_path, output_path, sharpness_level, img, level,
                   kernel, sharpened, imageFile, outState, writerOpens, ret,
                   frame, framesRead, framesWritten, frame_count, calls, exists>>

VideoWriter ==
    /\ pc = "video_writer"
    /\ writerOpens' = writerOpens + 1
    /\ \E opened \in BOOLEAN :
          IF opened
          THEN outState' = "open" /\ pc' = "video_kernel"
          ELSE outState' = "failed" /\ pc' = "video_fallback"
    /\ UNCHANGED <<argv, input_path, output_path, sharpness_level, img, level,
                   kernel, sharpened, imageFile, capState, fourcc, ret, frame,
                   framesRead, framesWritten, frame_count, calls, result, exists>>

VideoFallback_NoRelease ==
    /\ pc = "video_fallback"
    /\ fourcc' = "mp4v"
    /\ writerOpens' = writerOpens + 1
    /\ \E opened \in BOOLEAN :
          IF opened
          THEN /\ outState' = "open"
               /\ result' = result
               /\ pc' = "video_kernel"
          ELSE /\ outState' = "failed"
               /\ result' = "False"
               /\ pc' = "done"
    /\ UNCHANGED <<argv, input_path, output_path, sharpness_level, img, level,
                   kernel, sharpened, imageFile, capState, ret, frame,
                   framesRead, framesWritten, frame_count, calls, exists>>

VideoFallback ==
    /\ pc = "video_fallback"
    /\ fourcc' = "mp4v"
    /\ writerOpens' = writerOpens + 1
    /\ \E opened \in BOOLEAN :
          IF opened
          THEN /\ outState' = "open"
               /\ capState' = capState
               /\ result' = result
               /\ pc' = "video_kernel"
          ELSE /\ outState' = "failed"
               /\ capState' = "released"
               /\ result' = "False"
               /\ pc' = "done"
    /\ UNCHANGED <<argv, input_path, output_path, sharpness_level, img, level,
                   kernel, sharpened, imageFile, ret, frame, framesRead,
                   framesWritten, frame_count, calls, exists>>

VideoKernel ==
    /\ pc = "video_kernel"
    /\ level' = Clip(sharpness_level, MinLevel, MaxLevel)
    /\ kernel' = BuildKernel(level')
    /\ frame_count' = 0
    /\ pc' = "video_read"
    /\ UNCHANGED <<argv, input_path, output_path, sharpness_level, img,
                   sharpened, imageFile, capState, outState, fourcc,
                   writerOpens, ret, frame, framesRead, framesWritten, calls,
                   result, exists>>

VideoRead ==
    /\ pc = "video_read"
    /\ \E f \in VideoFrames \cup {None} :
          /\ f # None => Len(framesRead) < MaxFrames
          /\ ret' = (f # None)
          /\ frame' = f
          /\ IF f # None
             THEN framesRead' = Append(framesRead, f) /\ pc' = "video_write"
             ELSE framesRead' = framesRead /\ pc' = "video_release"
    /\ UNCHANGED <<argv, input_path, output_path, sharpness_level, img, level,
                   kernel, sharpened, imageFile, capState, outState, fourcc,
                   writerOpens, framesWritten, frame_count, calls, result, exists>>

VideoWrite_EveryOther ==
    /\ pc = "video_write"
    /\ sharpened' = Filter2D(frame, kernel)
    /\ framesWritten' = IF frame_count % 2 = 0
                        THEN Append(framesWritten, sharpened')
                        ELSE framesWritten
    /\ frame_count' = frame_count + 1
    /\ pc' = "video_read"
    /\ UNCHANGED <<argv, input_path, output_path, sharpness_level, img, level,
                   kernel, imageFile, capState, outState, fourcc, writerOpens,
                   ret, frame, framesRead, calls, result, exists>>

VideoWrite ==
    /\ pc = "video_write"
    /\ sharpened' = Filter2D(frame, kernel)
    /\ framesWritten' = Append(framesWritten, sharpened')
    /\ frame_count' = frame_count + 1
    /\ pc' = "video_read"
    /\ UNCHANGED <<argv, input_path, output_path, sharpness_level, img, level,
                   kernel, imageFile, capState, outState, fourcc, writerOpens,
                   ret, frame, framesRead, calls, result, exists>>

VideoRelease ==
    /\ pc = "video_release"
    /\ capState' = "released"
    /\ outState' = "released"
    /\ result' = "True"
    /\ pc' = "done"
    /\ UNCHANGED <<argv, input_path, output_path, sharpness_level, img, level,
                   kernel, sharpened, imageFile, fourcc, writerOpens, ret,
                   frame, framesRead, framesWritten, frame_count, calls, exists>>

NextVideo ==
    \/ VideoOpen
    \/ VideoWriter
    \/ VideoFallback
    \/ VideoKernel
    \/ VideoRead
    \/ VideoWrite
    \/ VideoRelease

Next ==
    \/ MainArgs
    \/ MainIsFile
    \/ MainDispatch
    \/ ImageRead
    \/ ImageFilter
    \/ ImageWrite
    \/ NextVideo

Spec == Init /\ [][Next]_vars

VideoSpec == InitVideo /\ [][NextVideo]_vars /\ WF_vars(NextVideo)

(***************************************************************************)
(* Properties                                                              *)
(***************************************************************************)

\* The frame the last filter2D call was applied to: the decoded image in
\* sharpen_image, the frame whose sharpened copy was written last in
\* sharpen_video.
Source == IF img # None THEN img ELSE framesRead[Len(framesWritten)]

KernelSum(k) ==
    k[1][1] + k[1][2] + k[1][3] + k[2][1] + k[2][2] + k[2][3]
      + k[3][1] + k[3][2] + k[3][3]

\* C1: for a level L in 1..10 the kernel built by sharpen_image and by
\* sharpen_video has centre 5+L, orthogonal neighbours -1, corners 0 and
\* weights summing to 1+L; the matrix is a function of L alone.
KernelForLevelInRange ==
    (kernel # None /\ sharpness_level \in 1..10) =>
        /\ kernel = << << 0, -1, 0 >>,
                       << -1, 5 + sharpness_level, -1 >>,
                       << 0, -1, 0 >> >>
        /\ KernelSum(kernel) = 1 + sharpness_level

KernelForLevelInRangeWitness ==
    /\ pc = "image_write"
    /\ sharpness_level = 7
    /\ kernel[2][2] = 12
    /\ KernelSum(kernel) = 8

\* C2: a level outside [1,10] handed to sharpen_image or sharpen_video
\* yields the kernel of the clamped level (the level-1 kernel below the
\* range, the level-10 kernel above it), and clamping the clamped level
\* again changes nothing.
KernelForLevelOutOfRange ==
    (kernel # None /\ sharpness_level \notin 1..10) =>
        /\ kernel = << << 0, -1, 0 >>,
                       << -1, IF sharpness_level < 1 THEN 6 ELSE 15, -1 >>,
                       << 0, -1, 0 >> >>
        /\ level = (IF sharpness_level < 1 THEN 1 ELSE 10)
        /\ Clip(level, 1, 10) = level

KernelForLevelOutOfRangeWitness ==
    /\ pc = "video_read"
    /\ sharpness_level = 12
    /\ kernel[2][2] = 15

\* The level arguments of the modelled command lines that are integers
\* outside [1,10], each with the level a clamp would give.
OutOfRangeArgs == { <<"0">>, <<"-", "2">>, <<"1", "1">>, <<"2", "5">> }

ClampedArg(a) == IF a \in { <<"0">>, <<"-", "2">> } THEN 1 ELSE 10

RunWithOutOfRangeArg ==
    /\ Len(argv) >= 4
    /\ argv[4] \in OutOfRangeArgs
    /\ kernel # None

\* C3 (as stated): a command-line level outside [1,10] is clamped, so the
\* kernel applied has centre 5+clamp(L,1,10).
OutOfRangeArgIsClamped ==
    RunWithOutOfRangeArg => kernel[2][2] = 5 + ClampedArg(argv[4])

\* C3 (amended): a command-line level outside [1,10] is replaced by the
\* default level 3, so the kernel applied has centre 8 whatever L was.
OutOfRangeArgUsesDefault ==
    RunWithOutOfRangeArg =>
        /\ sharpness_level = 3
        /\ kernel[2][2] = 8

OutOfRangeArgUsesDefaultWitness ==
    /\ Len(argv) >= 4
    /\ argv[4] = <<"1", "1">>
    /\ pc = "image_write"
    /\ kernel[2][2] = 8

\* Neighbour index (1-based) for a position one step outside 1..n.
Mirror(i, n) == IF n = 1 THEN 1 ELSE IF i < 1 THEN 2 ELSE IF i > n THEN n - 1 ELSE i

Nearest(i, n) == IF i < 1 THEN 1 ELSE IF i > n THEN n ELSE i

Saturated(v) == Max(0, Min(255, v))

\* The kernel-weighted sum at (y, x, ch) of frame s for level l, with the
\* out-of-bounds neighbours located by Border.
Weighted(s, l, y, x, ch, Border(_, _)) ==
    (5 + l) * s[y][x][ch]
      - s[Border(y - 1, Height(s))][x][ch] - s[Border(y + 1, Height(s))][x][ch]
      - s[y][Border(x - 1, Width(s))][ch] - s[y][Border(x + 1, Width(s))][ch]

SharpenedBy(Border(_, _)) ==
    sharpened # None =>
        \A y \in 1..Height(Source) : \A x \in 1..Width(Source) :
            \A ch \in 1..Depth(Source) :
                sharpened[y][x][ch] =
                    Saturated(Weighted(Source, level, y, x, ch, Border))

ExampleSharpenedTo(a, b, c, d) ==
    (sharpened # None /\ Source = ExampleFrame /\ level = 1) =>
        sharpened = << << GrayPixel(a), GrayPixel(b) >>,
                       << GrayPixel(c), GrayPixel(d) >> >>

\* C4 (as stated): every output value is the saturated weighted sum of the
\* 3x3 neighbourhood with out-of-bounds neighbours taken from the nearest
\* in-bounds pixel; [[10,20],[30,40]] at level 1 gives [[0,30],[70,110]].
SharpenReplicatesEdges ==
    /\ SharpenedBy(Nearest)
    /\ ExampleSharpenedTo(0, 30, 70, 110)

\* C4 (amended): every output value is the saturated weighted sum of the
\* 3x3 neighbourhood with out-of-bounds neighbours mirrored about the edge
\* pixel (the pixel one step inside the edge; the only pixel when the
\* dimension is 1); [[10,20],[30,40]] at level 1 gives [[0,20],[80,140]].
SharpenMirrorsEdges ==
    /\ SharpenedBy(Mirror)
    /\ ExampleSharpenedTo(0, 20, 80, 140)

SharpenMirrorsEdgesWitness ==
    /\ pc = "image_write"
    /\ img = ExampleFrame
    /\ level = 1
    /\ sharpened[1][2] = GrayPixel(20)
    /\ sharpened[2][2] = GrayPixel(140)

IsUniform(f) == \A y \in 1..Height(f) : \A x \in 1..Width(f) : f[y][x] = f[1][1]

\* C5: a uniform frame of value V sharpened at level L is uniform with
\* value min(255, V*(1+L)) at every pixel, border pixels included; V=100
\* at L=3 gives 255 and V=0 gives 0.
UniformFrameScales ==
    (sharpened # None /\ IsUniform(Source)) =>
        /\ \A y \in 1..Height(Source) : \A x \in 1..Width(Source) :
             \A ch \in 1..Depth(Source) :
                sharpened[y][x][ch] = Min(255, Source[1][1][ch] * (1 + level))
        /\ (Source[1][1] = GrayPixel(100) /\ level = 3) =>
                sharpened[1][1] = GrayPixel(255)
        /\ Source[1][1] = GrayPixel(0) => sharpened[1][1] = GrayPixel(0)

UniformFrameScalesWitness ==
    /\ pc = "image_write"
    /\ img = UniformFrame(2, 2, GrayPixel(100))
    /\ level = 3
    /\ sharpened = UniformFrame(2, 2, GrayPixel(255))

SameShape(f, g) ==
    /\ Height(f) = Height(g)
    /\ \A y \in 1..Height(g) :
          /\ Len(f[y]) = Len(g[y])
          /\ \A x \in 1..Len(g[y]) : Len(f[y][x]) = Len(g[y][x])

\* C6: the sharpening step produces a frame with the height, width and
\* channel count of its input, also for frames one pixel wide or one row
\* high, and leaves the input frame as it was.
SharpenKeepsShapeAndInput ==
    [][(pc \in {"image_filter", "video_write"}) =>
          (img' = img /\ frame' = frame /\ SameShape(sharpened', Source'))]_vars

SharpenKeepsShapeAndInputWitness ==
    /\ pc = "image_write"
    /\ Height(img) = 2
    /\ Width(img) = 1
    /\ Height(sharpened) = 2
    /\ Width(sharpened) = 1
    /\ Depth(sharpened) = 3
    /\ sharpened # img

ChannelMax(f, ch) ==
    LET vals == { f[y][x][ch] : y \in 1..Height(f), x \in 1..Width(f) }
    IN  CHOOSE m \in vals : \A v \in vals : v <= m

\* C7 (as stated): for every frame, sharpening the sharpened frame again
\* with the same kernel gives a different frame.
SharpenNeverIdempotent ==
    sharpened # None => Filter2D(sharpened, kernel) # sharpened

\* C7 (amended): sharpening the sharpened frame again gives a different
\* frame whenever some channel of the sharpened frame has a largest value
\* strictly between 0 and 255.
SharpenNotIdempotentUnlessSaturated ==
    (/\ sharpened # None
     /\ \E ch \in 1..Depth(sharpened) :
           0 < ChannelMax(sharpened, ch) /\ ChannelMax(sharpened, ch) < 255)
        => Filter2D(sharpened, kernel) # sharpened

SharpenNotIdempotentUnlessSaturatedWitness ==
    /\ pc = "image_write"
    /\ img = UniformFrame(1, 2, GrayPixel(10))
    /\ level = 1
    /\ sharpened = UniformFrame(1, 2, GrayPixel(20))
    /\ Filter2D(sharpened, kernel) = UniformFrame(1, 2, GrayPixel(40))

WriterFallbackInv ==
    /\ writerOpens <= 2
    /\ fourcc = "mp4v" <=> writerOpens = 2
    /\ (writerOpens = 1 /\ outState = "failed") => pc = "video_fallback"
    /\ (writerOpens = 2 /\ outState = "failed") =>
          /\ pc = "done"
          /\ result = "False"
          /\ framesRead = <<>>
          /\ framesWritten = <<>>
          /\ capState = "released"
    /\ pc \in {"video_kernel", "video_read", "video_write"} =>
          outState = "open" /\ capState = "open"
    /\ (framesRead # <<>> \/ framesWritten # <<>>) => writerOpens \in {1, 2}

\* C8: when the writer fails to open with the input codec exactly one more
\* attempt is made, with 'mp4v'; if that fails too the function returns
\* False with no frame read or written and the capture released; if either
\* attempt succeeds frame processing starts with that writer; the writer is
\* never opened more than twice.
WriterFallback ==
    /\ []WriterFallbackInv
    /\ [][(pc = "video_fallback") => (writerOpens' = 2 /\ fourcc' = "mp4v")]_vars
    /\ [][(outState' = "open" /\ outState # "open") => pc' = "video_kernel"]_vars
    /\ (writerOpens = 1 /\ outState = "failed") ~> (writerOpens = 2)
    /\ (pc = "video_kernel") ~> (pc = "video_read")

WriterFallbackWitness ==
    /\ writerOpens = 2
    /\ outState = "failed"
    /\ capState = "released"
    /\ result = "False"

FrameLoopInv ==
    /\ frame_count = Len(framesWritten)
    /\ Len(framesWritten) =
          (IF pc = "video_write" THEN Len(framesRead) - 1 ELSE Len(framesRead))
    /\ \A i \in 1..Len(framesWritten) :
          framesWritten[i] = Filter2D(framesRead[i], kernel)
    /\ pc = "video_write" => ret /\ frame = framesRead[Len(framesRead)]
    /\ pc = "video_release" => ~ret
    /\ result = "True" =>
          /\ capState = "released"
          /\ outState = "released"
          /\ Len(framesWritten) = Len(framesRead)

\* C9: once capture and writer are open every frame read is sharpened with
\* the same kernel and written exactly once, in order, before the next
\* read; the first failed read ends the loop without a write; the run then
\* releases capture and writer and returns True, also for zero frames.
FrameLoop ==
    /\ []FrameLoopInv
    /\ [][(pc \in {"video_read", "video_write"}) => kernel' = kernel]_vars
    /\ [][(pc = "video_read" /\ framesRead' # framesRead) => pc' = "video_write"]_vars
    /\ (pc = "video_read") ~>
          (pc = "done" /\ result = "True"
             /\ capState = "released" /\ outState = "released")

FrameLoopWitness ==
    /\ pc = "done"
    /\ result = "True"
    /\ Len(framesWritten) = 3
    /\ framesRead[1] # framesRead[2]
    /\ framesWritten[2] = Filter2D(framesRead[2], kernel)

\* The kind main should find for each modelled input path.
ImagePaths ==
    { <<"a", ".", "j", "p", "g">>, <<"a", ".", "J", "P", "G">>,
      <<"b", ".", "P", "n", "g">>,
      <<"d", ".", "m", "p", "4", "/", "x", ".", "g", "i", "f">> }

VideoPaths ==
    { <<"v", ".", "m", "p", "4">>, <<"v", ".", "M", "K", "V">>,
      <<"c", ".", "g", "i", "f", ".", "a", "v", "i">> }

NoOutput == imageFile = None /\ framesWritten = <<>> /\ sharpened = None

\* C10: a run of main invokes at most one of sharpen_image and
\* sharpen_video, and only with two path arguments and an existing input
\* file: sharpen_image exactly for an image extension (compared in lower
\* case), sharpen_video exactly for a video extension, the two sets being
\* disjoint; for a missing file or an unrecognised extension neither is
\* invoked and nothing is written.
DispatchByExtension ==
    argv # <<>> =>
        /\ Len(calls) <= 1
        /\ ImageExts \cap VideoExts = {}
        /\ calls # <<>> => (Len(argv) >= 3 /\ exists = "yes")
        /\ calls = <<>> => NoOutput
        /\ (exists = "yes" /\ pc # "main_dispatch") =>
              /\ calls = <<"sharpen_image">> <=> argv[2] \in ImagePaths
              /\ calls = <<"sharpen_video">> <=> argv[2] \in VideoPaths
        /\ exists = "no" => (pc = "done" /\ calls = <<>>)

DispatchByExtensionWitness ==
    /\ Len(argv) >= 3
    /\ argv[2] = <<"a", ".", "J", "P", "G">>
    /\ calls = <<"sharpen_image">>
    /\ pc = "done"
    /\ imageFile # None

====
